---- MODULE Spec2Model ----
(***************************************************************************)
(* A model of the shop backend: the M-Pesa transaction lifecycle and its   *)
(* periodic sweeps (payments/tasks.py), the callback task and its retries, *)
(* order placement and stock (orders/serializers.py, orders/tasks.py,      *)
(* products/views.py, inventory/tasks.py), default addresses               *)
(* (customers/views.py, customers/admin.py), primary images, reviews and   *)
(* prices (products/models.py), the product endpoints' permissions         *)
(* (products/views.py), publishing, view counts and stock status           *)
(* (products/models.py), order tracking tokens (orders/tokens.py), the     *)
(* payment and order sweeps taken row by row, and order status changes     *)
(* with their signal and tasks (orders/signals.py, orders/tasks.py).       *)
(*                                                                         *)
(* Each subsystem has its own next-state relation and specification over   *)
(* the one set of variables; a specification leaves the variables of the   *)
(* other subsystems at their initial values.                               *)
(***************************************************************************)
EXTENDS Integers, Sequences, FiniteSets, TLC

VARIABLES
    now,            \* payments: the clock, in ticks
    lastSweep,      \* payments: the tick of the last auto_timeout run (-1: none)
    status,         \* payments: MpesaTransaction.status per transaction
    initiated_at,   \* payments: MpesaTransaction.initiated_at per transaction
    timed_out,      \* payments: the transactions the last auto_timeout run saved
    cbQueue,        \* callback task: queued messages per request.retries value
    cbRuns,         \* callback task: executions for the received callback
    stock_quantity, \* orders: Product.stock_quantity per product
    orders,         \* orders: the Order rows with their items, in creation order
    addresses,      \* customers: the Address rows; a row's id is its index
    images,         \* products: the ProductImage rows; a row's id is its index
    saving,         \* products: the ProductImage.save call each worker is in
    reviews,        \* products: the Review rows
    posting,        \* products: the validated review each worker is about to save
    review_response,\* products: the outcome of the last review creation
    product,        \* prices: the pricing fields of a Product row
    clock,          \* prices: timezone.now()
    expiry_ran,     \* prices: the sale-expiry task was the last thing to run
    catalog,        \* endpoints: the fields of a Product the endpoints write
    response,       \* endpoints: the requester, endpoint and status of the last request
    product_row,    \* product row: is_active, publish_date and view_count as stored
    instance,       \* product row: the view_count of the Product instance a worker holds
    view_calls,     \* product row: the increment_view_count calls made
    row_clock,      \* product row: timezone.now()
    tasks_ran,      \* product row: the beat has run the products tasks at this time
    listing,        \* stock status: the stock fields of a Product row
    token_clock,    \* tracking tokens: time.time(), in ticks
    issued,         \* tracking tokens: the (order number, time) pairs tokens were generated for
    validated,      \* tracking tokens: the last token validated and the outcome
    stuck_loaded,   \* payments: the rows a running auto_timeout has fetched and not yet saved
    pending_loaded, \* payments: the rows a running check_pending has fetched and not yet queried
    notifications,  \* payments: the outcome notifications enqueued per transaction
    cancel_loaded,  \* orders: the payment_status of each Order instance auto_cancel has fetched
    confirm_loaded, \* orders: the orders auto_confirm has fetched and not yet saved
    pay_loaded,     \* orders: the status of each Order instance payment processing has loaded
    order_row,      \* order status: the stored status and the customer of an Order
    order_saving,   \* order status: the Order.save call under way, between write and post_save
    order_saves,    \* order status: the Order.save calls made on the existing order
    status_history, \* order status: the OrderStatusHistory records
    status_tasks,   \* order status: the update_order_status_task messages queued
    award_queue,    \* order status: the award_order_loyalty_points messages queued
    award_runs,     \* order status: the award_order_loyalty_points executions
    loyalty_points, \* order status: Customer.loyalty_points per customer
    loyalty_notifications,\* order status: the send_loyalty_points_notification messages queued
    email_queue,    \* email tasks: the messages queued per task
    email_runs,     \* email tasks: the executions per task
    email_state,    \* email tasks: the state of the task after its last execution
    email_last,     \* email tasks: what the last execution met
    record_exists,  \* email tasks: whether the record the task names exists
    transactions,   \* pending run: the MpesaTransaction rows
    run_now,        \* pending run: the clock, in ticks
    pending_run,    \* pending run: the phase and the cutoff_time of the run
    rows_at_fetch,  \* pending run: the rows as they were when the run fetched
    pending_transactions,\* pending run: the fetched transactions the loop has yet to visit
    queries,        \* pending run: the check_payment_status calls of the run per transaction
    raised,         \* pending run: the transactions whose check raised in the run
    checked_count,  \* pending run: checked_count
    warehouse_stock,\* stock alerts: the WarehouseStock row
    unresolved_alerts,\* stock alerts: the alert types with an unresolved StockAlert for the row
    alerts_created, \* stock alerts: the alert the last run created
    monitored,      \* stock alerts: a run has ended since the row was last written
    todays_transactions,\* reconciliation: the MpesaTransaction rows initiated today
    report          \* reconciliation: report['transactions'] of the last run

payVars == <<now, lastSweep, status, initiated_at, timed_out>>
cbVars == <<cbQueue, cbRuns>>
stockVars == <<stock_quantity, orders>>
addrVars == <<addresses>>
imgVars == <<images, saving>>
revVars == <<reviews, posting, review_response>>
priceVars == <<product, clock, expiry_ran>>
permVars == <<catalog, response>>
rowVars == <<product_row, instance, view_calls, row_clock, tasks_ran>>
listVars == <<listing>>
tokenVars == <<token_clock, issued, validated>>
raceVars == <<stuck_loaded, pending_loaded, notifications>>
orderRaceVars == <<cancel_loaded, confirm_loaded, pay_loaded>>
statusVars == <<order_row, order_saving, order_saves, status_history,
                status_tasks, award_queue, award_runs,
                loyalty_points, loyalty_notifications>>
emailVars == <<email_queue, email_runs, email_state, email_last,
               record_exists>>
pendingRunVars ==
    <<transactions, run_now, pending_run, rows_at_fetch,
      pending_transactions, queries, raised, checked_count>>
alertVars == <<warehouse_stock, unresolved_alerts, alerts_created, monitored>>
reconVars == <<todays_transactions, report>>
vars == <<now, lastSweep, status, initiated_at, timed_out, cbQueue, cbRuns,
          stock_quantity, orders, addresses, images, saving,
          reviews, posting, review_response, product, clock, expiry_ran,
          catalog, response, product_row, instance, view_calls, row_clock, tasks_ran,
          listing, token_clock, issued, validated,
          stuck_loaded, pending_loaded, notifications,
          cancel_loaded, confirm_loaded, pay_loaded,
          order_row, order_saving, order_saves, status_history,
          status_tasks, award_queue, award_runs,
          loyalty_points, loyalty_notifications,
          email_queue, email_runs, email_state, email_last, record_exists,
          transactions, run_now, pending_run, rows_at_fetch,
          pending_transactions, queries, raised, checked_count,
          warehouse_stock, unresolved_alerts, alerts_created, monitored,
          todays_transactions, report>>

----------------------------------------------------------------------------
(* Bounds of the model *)

TicksPerHour == 2
MaxHours == 4

MaxTime == MaxHours * TicksPerHour

TxnIds == {"t1", "t2"}

MaxStock == 1

Products == {"p1", "p2"}
OrderIds == {1, 2}

AddressIds == {1, 2, 3}

MaxClock == 2

ImageIds == {1, 2, 3}
Workers == {"w1", "w2"}

MaxViews == 3

MaxSaves == 3

TicksPerWeek == 1

----------------------------------------------------------------------------
(* Payments: transactions, the clock and the sweeps *)

hours(n) == n * TicksPerHour

\* timedelta(minutes=5): less than one tick, so the first instant at least
\* five minutes later is the next tick
FiveMinutes == 1

\* the outcomes service.check_payment_status can store for a queried transaction
QueryOutcomes == {"processing", "completed", "failed", "cancelled", "timeout"}

PayInit ==
    /\ now = 0
    /\ lastSweep = -1
    /\ status = [t \in TxnIds |-> "none"]
    /\ initiated_at = [t \in TxnIds |-> 0]
    /\ timed_out = {}

\* MpesaPaymentService initiates a payment: the record is created (pending,
\* initiated_at = now) and the STK push is sent in the same request; the push
\* is accepted (processing), rejected (failed) or does not complete (pending)
InitiatePayment(t, outcome) ==
    /\ status[t] = "none"
    /\ status' = [status EXCEPT ![t] = outcome]
    /\ initiated_at' = [initiated_at EXCEPT ![t] = now]
    /\ UNCHANGED <<now, lastSweep, timed_out>>

\* the queryset of auto_timeout_stuck_transactions:
\* filter(status='processing', initiated_at__lte=now - 2 hours)
StuckTransactionsNoAge ==
    {t \in TxnIds : status[t] = "processing"}

StuckTransactionsThreeHours ==
    {t \in TxnIds : status[t] = "processing" /\ initiated_at[t] <= now - hours(3)}

StuckTransactions ==
    {t \in TxnIds : status[t] = "processing" /\ initiated_at[t] <= now - hours(2)}

\* crontab(minute=0): the beat fires the sweep once at every full hour
SweepDue == now % TicksPerHour = 0 /\ lastSweep # now

\* one run of auto_timeout_stuck_transactions
auto_timeout_stuck_transactions ==
    /\ SweepDue
    /\ status' = [t \in TxnIds |->
                     IF t \in StuckTransactions THEN "timeout" ELSE status[t]]
    /\ timed_out' = StuckTransactions
    /\ lastSweep' = now
    /\ UNCHANGED <<now, initiated_at>>

\* the queryset of check_pending_transactions:
\* filter(status='processing', initiated_at__lte=now - 5 minutes)
PendingTransactions ==
    {t \in TxnIds : status[t] = "processing" /\ initiated_at[t] <= now - FiveMinutes}

\* one run of check_pending_transactions: every transaction of the queryset
\* is queried and takes the status the provider reports
check_pending_transactions ==
    /\ PendingTransactions # {}
    /\ \E result \in [PendingTransactions -> QueryOutcomes] :
          status' = [t \in TxnIds |->
                        IF t \in PendingTransactions THEN result[t] ELSE status[t]]
    /\ UNCHANGED <<now, lastSweep, initiated_at, timed_out>>

\* time passes; a full hour is not left before the beat has fired the sweep
Tick ==
    /\ now < MaxTime
    /\ ~SweepDue
    /\ now' = now + 1
    /\ UNCHANGED <<lastSweep, status, initiated_at, timed_out>>

----------------------------------------------------------------------------
(* The callback task and its retries *)

max_retries == 3

RetryLevels == 0..max_retries

CbInit ==
    /\ cbQueue = [r \in RetryLevels |-> 0]
    /\ cbRuns = 0

\* Task.retry at request.retries = r: past max_retries it raises without
\* publishing; otherwise it publishes the task again with retries = r + 1 and
\* raises Retry
retry(q, r) ==
    IF r + 1 > max_retries THEN q ELSE [q EXCEPT ![r + 1] = @ + 1]

\* the messages the body of process_mpesa_callback_task publishes:
\*   "success": process_stk_callback returned True, nothing is published;
\*   "false":   it returned False, self.retry is called in the try block, the
\*              exception it raises is caught by `except Exception` and
\*              self.retry is called again;
\*   "raise":   it raised, self.retry is called in the except block
process_mpesa_callback_task(q, r, outcome) ==
    CASE outcome = "success" -> q
      [] outcome = "false"   -> retry(retry(q, r), r)
      [] outcome = "raise"   -> retry(q, r)

CallbackOutcomes == {"success", "false", "raise"}

\* the webhook view enqueues the task for a received callback
ReceiveCallback ==
    /\ cbRuns = 0
    /\ cbQueue = [r \in RetryLevels |-> 0]
    /\ cbQueue' = [cbQueue EXCEPT ![0] = 1]
    /\ UNCHANGED cbRuns

\* process_stk_callback settles the transaction the callback is about
SettledBy(t, result) ==
    IF status[t] = "processing" THEN [status EXCEPT ![t] = result] ELSE status

\* a worker executes one queued message of the callback task
RunCallbackTask(r, outcome, t, result) ==
    /\ cbQueue[r] > 0
    /\ cbRuns' = cbRuns + 1
    /\ cbQueue' = process_mpesa_callback_task(
                      [cbQueue EXCEPT ![r] = @ - 1], r, outcome)
    /\ status' = IF outcome = "success" THEN SettledBy(t, result) ELSE status
    /\ UNCHANGED <<now, lastSweep, initiated_at, timed_out>>

----------------------------------------------------------------------------
(* Orders and stock *)

StockInit ==
    /\ stock_quantity = [p \in Products |-> MaxStock]
    /\ orders = <<>>

\* the item lists a client can post: one or two lines of product_id and
\* quantity
ItemLines == [product : Products, quantity : 0..MaxStock]
ItemLists == UNION {[1..n -> ItemLines] : n \in {1, 2}}

\* validate_items, "Check stock": product.stock_quantity < item['quantity']
\* rejects the request
SufficientStockUnchecked(item) == TRUE

SufficientStock(item) == ~(stock_quantity[item.product] < item.quantity)

\* validate_items accepts the list: every line has quantity >= 1 and passes
\* the stock check
ItemsValid(value) ==
    \A i \in DOMAIN value :
       /\ ~(value[i].quantity < 1)
       /\ SufficientStock(value[i])

\* validate_items returns the validated lines; each carries the Product
\* instance loaded for that line, with the stock_quantity read then
validated_items(value) ==
    [i \in DOMAIN value |->
        [product |-> value[i].product,
         quantity |-> value[i].quantity,
         stock_quantity |-> stock_quantity[value[i].product]]]

\* create, "Update product stock": line by line, the line's own Product
\* instance has its stock_quantity reduced and is saved
RECURSIVE StockAfterLines(_, _, _)
StockAfterLines(s, items, i) ==
    IF i > Len(items) THEN s
    ELSE StockAfterLines(
             [s EXCEPT ![items[i].product] =
                 items[i].stock_quantity - items[i].quantity],
             items, i + 1)

\* the Order row and OrderItem rows that create stores; age is the time since
\* created_at in days, counted up to 2 (more than 24 hours)
NewOrder(items) ==
    [items |-> [i \in DOMAIN items |->
                   [product |-> items[i].product, quantity |-> items[i].quantity]],
     status |-> "pending",
     payment_status |-> "pending",
     age |-> 0]

\* an order request: OrderCreateSerializer.validate_items, then create
PlaceOrder(value) ==
    /\ ItemsValid(value)
    /\ Len(orders) < Cardinality(OrderIds)
    /\ orders' = Append(orders, NewOrder(validated_items(value)))
    /\ stock_quantity' = StockAfterLines(stock_quantity, validated_items(value), 1)

\* the payment flow records the outcome of an order's payment
RecordPayment(o, outcome) ==
    /\ o \in DOMAIN orders
    /\ orders[o].status = "pending"
    /\ orders[o].payment_status # "paid"
    /\ orders' = [orders EXCEPT ![o].payment_status = outcome]
    /\ UNCHANGED stock_quantity

\* the queryset of auto_cancel_unpaid_orders: filter(status='pending',
\* payment_status__in=['pending', 'failed'], created_at__lt=now - 24 hours)
OrdersToCancel ==
    {o \in DOMAIN orders :
        /\ orders[o].status = "pending"
        /\ orders[o].payment_status \in {"pending", "failed"}
        /\ orders[o].age > 1}

\* "Restock items": item.product.stock_quantity += item.quantity, saved, for
\* every item of the order
RECURSIVE Restocked(_, _, _)
Restocked(s, items, i) ==
    IF i > Len(items) THEN s
    ELSE Restocked([s EXCEPT ![items[i].product] = @ + items[i].quantity],
                   items, i + 1)

RECURSIVE RestockedOrders(_, _)
RestockedOrders(s, o) ==
    IF o > Len(orders) THEN s
    ELSE RestockedOrders(
             IF o \in OrdersToCancel THEN Restocked(s, orders[o].items, 1) ELSE s,
             o + 1)

\* one run of auto_cancel_unpaid_orders
auto_cancel_unpaid_orders ==
    /\ OrdersToCancel # {}
    /\ orders' = [o \in DOMAIN orders |->
          IF o \in OrdersToCancel
          THEN [orders[o] EXCEPT !.status = "cancelled"]
          ELSE orders[o]]
    /\ stock_quantity' = RestockedOrders(stock_quantity, 1)

\* ProductViewSet.update_stock: a negative stock_quantity is answered with
\* 400, any other is stored
update_stock(p, quantity) ==
    /\ ~(quantity < 0)
    /\ stock_quantity' = [stock_quantity EXCEPT ![p] = quantity]
    /\ UNCHANGED orders

\* the totals Sum('quantity') over a product's WarehouseStock rows can take
WarehouseTotals == [Products -> 0..MaxStock]

\* one run of sync_product_stock_from_warehouses
sync_product_stock_from_warehouses(total_stock) ==
    /\ stock_quantity' = [p \in Products |->
          IF stock_quantity[p] # total_stock[p] THEN total_stock[p]
          ELSE stock_quantity[p]]
    /\ UNCHANGED orders

\* a day passes: every order is a day older
DayPasses ==
    /\ \E o \in DOMAIN orders : orders[o].age < 2
    /\ orders' = [o \in DOMAIN orders |->
          [orders[o] EXCEPT !.age = IF @ < 2 THEN @ + 1 ELSE @]]
    /\ UNCHANGED stock_quantity

----------------------------------------------------------------------------
(* Default addresses *)

\* a registered customer, and the guest Customer that guest orders with one
\* guest_email find or create
Customers == {"registered", "guest"}
AddressTypes == {"billing", "shipping"}

\* a field that a PATCH request does not carry
Absent == "absent"

AddrInit == addresses = <<>>

\* Address.save and Address.objects.create: the row is written as given
Address_create(rows, row) == Append(rows, row)

Address_save(rows, id, row) == [rows EXCEPT ![id] = row]

\* Address.objects.filter(customer=c, address_type=type).exclude(id=except)
\*     .update(is_default=False); except = 0 excludes nothing
UnsetDefaults(rows, c, type, except) ==
    [i \in DOMAIN rows |->
        IF rows[i].customer = c /\ rows[i].address_type = type /\ i # except
        THEN [rows[i] EXCEPT !.is_default = FALSE]
        ELSE rows[i]]

\* AddressViewSet.perform_create for the authenticated customer c
perform_create(c, type, is_default) ==
    /\ Len(addresses) < Cardinality(AddressIds)
    /\ addresses' = Address_create(
          IF is_default THEN UnsetDefaults(addresses, c, type, 0) ELSE addresses,
          [customer |-> c, address_type |-> type, is_default |-> is_default])

\* AddressViewSet.perform_update for the authenticated customer c on one of
\* their addresses; type and is_default are the fields of validated_data,
\* Absent when the request does not carry them
perform_update(c, id, type, is_default) ==
    /\ id \in DOMAIN addresses
    /\ addresses[id].customer = c
    /\ LET new_type == IF type = Absent THEN addresses[id].address_type ELSE type
           unset == is_default = "true"
           row == [customer |-> c,
                   address_type |-> new_type,
                   is_default |-> CASE is_default = "true" -> TRUE
                                    [] is_default = "false" -> FALSE
                                    [] OTHER -> addresses[id].is_default]
       IN addresses' = Address_save(
             IF unset THEN UnsetDefaults(addresses, c, new_type, id) ELSE addresses,
             id, row)

\* AddressViewSet.set_default for the authenticated customer c
set_default(c, id) ==
    /\ id \in DOMAIN addresses
    /\ addresses[id].customer = c
    /\ addresses' = Address_save(
          UnsetDefaults(addresses, c, addresses[id].address_type, id),
          id, [addresses[id] EXCEPT !.is_default = TRUE])

\* AddressAdmin.save_model on the add form (id = 0) or the change form
save_model(id, c, type, is_default) ==
    /\ id = 0 => Len(addresses) < Cardinality(AddressIds)
    /\ id # 0 => id \in DOMAIN addresses
    /\ LET rows == IF is_default THEN UnsetDefaults(addresses, c, type, id)
                   ELSE addresses
           row == [customer |-> c, address_type |-> type, is_default |-> is_default]
       IN addresses' = IF id = 0 THEN Address_create(rows, row)
                       ELSE Address_save(rows, id, row)

\* OrderCreateSerializer.create for a guest: the shipping address of the
\* order is stored as a default address of the guest Customer
GuestOrderAddress ==
    /\ Len(addresses) < Cardinality(AddressIds)
    /\ addresses' = Address_create(addresses,
          [customer |-> "guest", address_type |-> "shipping", is_default |-> TRUE])

----------------------------------------------------------------------------
(* Primary images *)

\* a worker that is in no ProductImage.save call
NoSave == [id |-> -1, product |-> "p1", is_primary |-> FALSE]

ImgInit ==
    /\ images = <<>>
    /\ saving = [w \in Workers |-> NoSave]

\* the new images whose save calls are under way
NewInFlight == {w \in Workers : saving[w].id = 0}

\* ProductImage.objects.filter(product=p, is_primary=True)
\*     .update(is_primary=False)
UnsetPrimary(rows, p) ==
    [i \in DOMAIN rows |->
        IF rows[i].product = p /\ rows[i].is_primary
        THEN [rows[i] EXCEPT !.is_primary = FALSE]
        ELSE rows[i]]

\* ProductImage.save, up to super().save(): worker w saves an instance, new
\* (id = 0) or loaded earlier, holding the fields product and is_primary
ProductImage_save(w, id, p, is_primary) ==
    /\ saving[w] = NoSave
    /\ id = 0 => Len(images) + Cardinality(NewInFlight) < Cardinality(ImageIds)
    /\ id # 0 => id \in DOMAIN images
    /\ images' = IF is_primary THEN UnsetPrimary(images, p) ELSE images
    /\ saving' = [saving EXCEPT ![w] =
                     [id |-> id, product |-> p, is_primary |-> is_primary]]

\* super().save(): the instance's row is inserted or updated
Model_save(w) ==
    /\ saving[w] # NoSave
    /\ LET row == [product |-> saving[w].product,
                   is_primary |-> saving[w].is_primary]
       IN images' = IF saving[w].id = 0 THEN Append(images, row)
                    ELSE [images EXCEPT ![saving[w].id] = row]
    /\ saving' = [saving EXCEPT ![w] = NoSave]

----------------------------------------------------------------------------
(* Reviews *)

ReviewCustomers == {"c1", "c2"}
Ratings == {1, 5}

\* a worker that holds no validated review
NoPost == [product |-> "p1", customer |-> "c1", rating |-> 0]

RevInit ==
    /\ reviews = {}
    /\ posting = [w \in Workers |-> NoPost]
    /\ review_response = "none"

\* Review.objects.filter(product=product, customer=customer).exists()
ReviewExists(rows, p, c) ==
    \E x \in rows : x.product = p /\ x.customer = c

\* the INSERT of a Review row under Meta.unique_together: a second row for
\* the (product, customer) pair raises IntegrityError and stores nothing
Review_insertUnconstrained(rows, r) == rows \cup {r}

Review_insert(rows, r) ==
    IF ReviewExists(rows, r.product, r.customer) THEN rows ELSE rows \cup {r}

\* the response to a creation that reaches the INSERT
InsertResponse(rows, r) ==
    IF ReviewExists(rows, r.product, r.customer) THEN "integrity_error"
    ELSE "created"

\* ReviewSerializer.validate on a POST by customer c
ReviewSerializer_validate(w, p, c, rating) ==
    /\ posting[w] = NoPost
    /\ IF ReviewExists(reviews, p, c)
       THEN /\ review_response' = "already_reviewed"
            /\ UNCHANGED posting
       ELSE /\ posting' = [posting EXCEPT ![w] =
                              [product |-> p, customer |-> c, rating |-> rating]]
            /\ UNCHANGED review_response
    /\ UNCHANGED reviews

\* ReviewViewSet.perform_create: serializer.save(customer=...)
ReviewViewSet_perform_create(w) ==
    /\ posting[w] # NoPost
    /\ reviews' = Review_insert(reviews, posting[w])
    /\ review_response' = InsertResponse(reviews, posting[w])
    /\ posting' = [posting EXCEPT ![w] = NoPost]

\* Review.objects.create, directly on the model
Review_objects_create(p, c, rating) ==
    /\ reviews' = Review_insert(reviews,
                      [product |-> p, customer |-> c, rating |-> rating])
    /\ review_response' = InsertResponse(reviews,
                      [product |-> p, customer |-> c, rating |-> rating])
    /\ UNCHANGED posting

----------------------------------------------------------------------------
(* Prices and sales *)

\* None in a nullable field
NULL == -1

\* the prices are multiples of 100 and the percentages whole, so that
\* price * discount_percentage / 100 is exact
Prices == {100, 200}
Discounts == {0, 10}
SalePrices == {NULL, 0, 80}
Times == {NULL} \cup 0..MaxClock

ProductFields ==
    [price : Prices, discount_percentage : Discounts, sale_price : SalePrices,
     sale_starts_at : Times, sale_ends_at : Times, is_on_sale : BOOLEAN]

\* the truth value of a nullable Decimal: None and 0 are false
Truthy(x) == x # NULL /\ x # 0

\* Product.is_sale_active
is_sale_active(p) ==
    IF p.sale_starts_at = NULL \/ p.sale_ends_at = NULL THEN TRUE
    ELSE p.sale_starts_at <= clock /\ clock <= p.sale_ends_at

\* Product.final_price
final_price(p) ==
    IF p.discount_percentage > 0
    THEN p.price - (p.price * p.discount_percentage) \div 100
    ELSE p.price

\* Product.current_price
current_price(p) ==
    IF Truthy(p.sale_price) /\ is_sale_active(p) THEN p.sale_price
    ELSE final_price(p)

\* Product.save, "Auto-set is_on_sale based on sale_price and dates"
Product_save(p) ==
    IF Truthy(p.sale_price) /\ is_sale_active(p)
    THEN [p EXCEPT !.is_on_sale = TRUE]
    ELSE IF ~Truthy(p.sale_price) /\ p.discount_percentage = 0
         THEN [p EXCEPT !.is_on_sale = FALSE]
         ELSE p

PriceInit ==
    /\ clock = 0
    /\ product = [price |-> 100, discount_percentage |-> 0, sale_price |-> NULL,
                  sale_starts_at |-> NULL, sale_ends_at |-> NULL,
                  is_on_sale |-> FALSE]
    /\ expiry_ran = FALSE

\* the product is saved with the pricing fields an admin form or the API
\* gives it
SaveProduct(fields) ==
    /\ product' = Product_save(fields)
    /\ expiry_ran' = FALSE
    /\ UNCHANGED clock

ClockTick ==
    /\ clock < MaxClock
    /\ clock' = clock + 1
    /\ expiry_ran' = FALSE
    /\ UNCHANGED product

\* the sale-expiry task of products/tasks.py, auto_expire_flash_sales: its
\* body is commented out and it returns a message
auto_expire_flash_sales ==
    /\ expiry_ran' = TRUE
    /\ UNCHANGED <<product, clock>>

----------------------------------------------------------------------------
(* The product endpoints and their permissions *)

Users == {"anonymous", "customer", "admin"}

Visibilities == {"public", "private", "hidden", "catalog"}

\* the endpoints of ProductViewSet that write
Endpoints ==
    {"create", "update", "delete", "add_image", "update_stock",
     "toggle_featured", "toggle_bestseller", "update_visibility",
     "schedule_publish"}

\* the actions declared with permission_classes=[IsAuthenticated]
AuthenticatedEndpoints ==
    {"add_image", "update_stock", "toggle_featured", "toggle_bestseller",
     "update_visibility", "schedule_publish"}

\* rest_framework.permissions.IsAuthenticated
IsAuthenticated(u) == u # "anonymous"

\* products.permissions.IsAdminOrReadOnly on a request that writes
IsAdminOrReadOnly(u) == u = "admin"

\* the permission check of the endpoint: the class of the @action, or the
\* viewset's permission_classes
HasPermission(u, endpoint) ==
    IF endpoint \in AuthenticatedEndpoints THEN IsAuthenticated(u)
    ELSE IsAdminOrReadOnly(u)

PermInit ==
    /\ catalog = [exists |-> FALSE, is_active |-> TRUE, name |-> "a",
                  stock_quantity |-> 0, is_featured |-> FALSE,
                  is_bestseller |-> FALSE, visibility |-> "public",
                  publish_date |-> NULL, images |-> 0]
    /\ response = [user |-> "anonymous", endpoint |-> "none", code |-> 0]

\* what the endpoint writes once the permission check has passed and
\* get_object has found the product
Written(endpoint, arg) ==
    CASE endpoint = "update" -> [catalog EXCEPT !.name = arg.name]
      [] endpoint = "delete" -> [catalog EXCEPT !.is_active = FALSE]
      [] endpoint = "add_image" ->
            [catalog EXCEPT !.images = IF @ < 2 THEN @ + 1 ELSE @]
      [] endpoint = "update_stock" ->
            [catalog EXCEPT !.stock_quantity = arg.stock_quantity]
      [] endpoint = "toggle_featured" ->
            [catalog EXCEPT !.is_featured = ~@]
      [] endpoint = "toggle_bestseller" ->
            [catalog EXCEPT !.is_bestseller = ~@]
      [] endpoint = "update_visibility" ->
            [catalog EXCEPT !.visibility = arg.visibility]
      [] endpoint = "schedule_publish" ->
            [catalog EXCEPT !.publish_date = 1, !.is_active = FALSE]

\* the request data an endpoint reads
RequestArgs(endpoint) ==
    [name : IF endpoint \in {"create", "update"} THEN {"a", "b"} ELSE {"a"},
     stock_quantity : IF endpoint \in {"create", "update_stock"}
                      THEN 0..MaxStock ELSE {0},
     visibility : IF endpoint = "update_visibility" THEN Visibilities
                  ELSE {"public"}]

\* one request of user u to a writing endpoint of ProductViewSet
Request(u, endpoint, arg) ==
    IF ~HasPermission(u, endpoint)
    THEN /\ response' = [user |-> u, endpoint |-> endpoint,
                         code |-> IF u = "anonymous" THEN 401 ELSE 403]
         /\ UNCHANGED catalog
    ELSE IF endpoint = "create"
    THEN /\ ~catalog.exists
         /\ catalog' = [catalog EXCEPT !.exists = TRUE, !.name = arg.name,
                                       !.stock_quantity = arg.stock_quantity]
         /\ response' = [user |-> u, endpoint |-> endpoint, code |-> 201]
    ELSE IF ~(catalog.exists /\ catalog.is_active)
    THEN /\ response' = [user |-> u, endpoint |-> endpoint, code |-> 404]
         /\ UNCHANGED catalog
    ELSE /\ catalog' = Written(endpoint, arg)
         /\ response' = [user |-> u, endpoint |-> endpoint, code |-> 200]

----------------------------------------------------------------------------
(* A product product_row: publishing and the view count *)

\* a worker that holds no Product instance
NoInstance == -1

RowInit ==
    /\ product_row = [is_active |-> TRUE, publish_date |-> NULL, view_count |-> 0]
    /\ instance = [w \in Workers |-> NoInstance]
    /\ view_calls = 0
    /\ row_clock = 0
    /\ tasks_ran = FALSE

\* Product.is_published
is_published(p) ==
    IF ~p.is_active THEN FALSE
    ELSE IF p.publish_date # NULL THEN row_clock >= p.publish_date
    ELSE TRUE

\* ProductViewSet.get_object on queryset filter(is_active=True): the worker
\* loads the row into a Product instance; an inactive product is not found
get_object(w) ==
    /\ instance[w] = NoInstance
    /\ product_row.is_active
    /\ instance' = [instance EXCEPT ![w] = product_row.view_count]
    /\ UNCHANGED <<product_row, view_calls, row_clock, tasks_ran>>

\* Product.increment_view_count on the instance a worker holds:
\* filter(pk=self.pk).update(view_count=F('view_count') + 1)
view_count_updateFromInstance(w) == instance[w] + 1

view_count_update(w) == product_row.view_count + 1

\* ProductViewSet.increment_view, after get_object
increment_view_count(w) ==
    /\ instance[w] # NoInstance
    /\ view_calls < MaxViews
    /\ product_row' = [product_row EXCEPT !.view_count = view_count_update(w)]
    /\ view_calls' = view_calls + 1
    /\ instance' = [instance EXCEPT ![w] = NoInstance]
    /\ UNCHANGED <<row_clock, tasks_ran>>

\* ProductViewSet.schedule_publish, after get_object:
\* save(update_fields=['publish_date', 'is_active'])
schedule_publish(w, publish_datetime) ==
    /\ instance[w] # NoInstance
    /\ product_row' = [product_row EXCEPT !.publish_date = publish_datetime, !.is_active = FALSE]
    /\ instance' = [instance EXCEPT ![w] = NoInstance]
    /\ UNCHANGED <<view_calls, row_clock, tasks_ran>>

\* ProductAdmin, "Status & Visibility": an admin saves the change form with
\* is_active and publish_date; view_count is a read-only field of the form
ProductAdmin_save_model(is_active, publish_date) ==
    /\ product_row' = [product_row EXCEPT !.is_active = is_active, !.publish_date = publish_date]
    /\ UNCHANGED <<instance, view_calls, row_clock, tasks_ran>>

\* the products tasks of the beat schedule run: the one that writes is_active,
\* auto_deactivate_out_of_stock_products, deactivates an active product that
\* it finds out of stock (out_of_stock); none writes an inactive product
products_beat_tasks(out_of_stock) ==
    /\ ~tasks_ran
    /\ tasks_ran' = TRUE
    /\ product_row' = IF product_row.is_active /\ out_of_stock
              THEN [product_row EXCEPT !.is_active = FALSE]
              ELSE product_row
    /\ UNCHANGED <<instance, view_calls, row_clock>>

RowTick ==
    /\ row_clock < MaxClock
    /\ row_clock' = row_clock + 1
    /\ tasks_ran' = FALSE
    /\ UNCHANGED <<product_row, instance, view_calls>>

----------------------------------------------------------------------------
(* Stock status *)

StockLevels == -1..(MaxStock + 1)
Thresholds == 0..(MaxStock + 1)

ListingFields ==
    [stock_quantity : StockLevels, low_stock_threshold : Thresholds,
     preorder_available : BOOLEAN, backorder_allowed : BOOLEAN,
     restock_date : Times]

ListInit ==
    listing = [stock_quantity |-> 0, low_stock_threshold |-> 0,
               preorder_available |-> FALSE, backorder_allowed |-> FALSE,
               restock_date |-> NULL]

\* Product.is_low_stock
is_low_stockStrict(p) ==
    0 < p.stock_quantity /\ p.stock_quantity < p.low_stock_threshold

is_low_stock(p) ==
    0 < p.stock_quantity /\ p.stock_quantity <= p.low_stock_threshold

\* Product.is_in_stock
is_in_stock(p) == p.stock_quantity > 0

\* Product.can_purchase
can_purchase(p) ==
    IF is_in_stock(p) THEN TRUE
    ELSE p.preorder_available \/ p.backorder_allowed

\* Product.stock_status
stock_status(p) ==
    IF is_in_stock(p)
    THEN IF is_low_stock(p) THEN "low_stock" ELSE "in_stock"
    ELSE IF p.preorder_available THEN "preorder"
    ELSE IF p.backorder_allowed THEN "backorder"
    ELSE IF p.restock_date # NULL THEN "out_of_stock_restock_scheduled"
    ELSE "out_of_stock"

\* the row is stored with the stock fields a form or a migration gives it
SaveListing(fields) ==
    /\ fields # listing
    /\ listing' = fields

----------------------------------------------------------------------------
(* Order tracking tokens *)

\* 14 days
ORDER_TRACKING_TOKEN_MAX_AGE == 2 * TicksPerWeek

MaxTokenTime == ORDER_TRACKING_TOKEN_MAX_AGE + 2

_SALT == "order_tracking_v1"

OrderNumbers == {"ORD-1", "ORD-2"}

None == "None"

\* Signer.signature: the HMAC of the message under the key derived from the
\* salt; two signatures are equal only for the same salt and message.  A
\* message without a timestamp has timestamp -1; "junk" is a string that is
\* no HMAC the server has made
signatureAnySalt(salt, value, timestamp) ==
    [salt |-> _SALT, value |-> value, timestamp |-> timestamp]

signature(salt, value, timestamp) ==
    [salt |-> salt, value |-> value, timestamp |-> timestamp]

\* a token string by its ':'-separated parts: value alone (parts = 1),
\* value:signature (parts = 2) or value:timestamp:signature (parts = 3)
TimestampSigner_sign(salt, value, timestamp) ==
    [parts |-> 3, value |-> value, timestamp |-> timestamp,
     sig |-> signature(salt, value, timestamp)]

\* generate_order_tracking_token at time.time() = at
generate_order_tracking_token(order_number, at) ==
    TimestampSigner_sign(_SALT, order_number, at)

\* TimestampSigner.unsign(token, max_age) at time.time() = at: the value, or
\* the exception raised
TimestampSigner_unsign(salt, token, max_age, at) ==
    IF token.parts < 2 THEN "BadSignature"
    ELSE IF token.sig # signature(salt, token.value,
                                  IF token.parts = 3 THEN token.timestamp ELSE -1)
         THEN "BadSignature"
    ELSE IF token.parts < 3 THEN "ValueError"
    ELSE IF at - token.timestamp > max_age THEN "SignatureExpired"
    ELSE token.value

\* validate_order_tracking_token at time.time() = at
validate_order_tracking_token(token, at) ==
    LET order_number ==
            TimestampSigner_unsign(_SALT, token, ORDER_TRACKING_TOKEN_MAX_AGE, at)
    IN IF order_number = "SignatureExpired" THEN None
       ELSE IF order_number = "BadSignature" THEN None
       ELSE IF order_number = "ValueError" THEN None
       ELSE order_number

TokenInit ==
    /\ token_clock = 0
    /\ issued = {}
    /\ validated = [token |-> [parts |-> 1, value |-> "ORD-1", timestamp |-> 0,
                               sig |-> signature("junk", "ORD-1", -1)],
                    result |-> None]

\* the server sends the tracking link of an order
IssueToken(order_number) ==
    /\ \A r \in issued : r.order_number # order_number
    /\ issued' = issued \cup {[order_number |-> order_number, at |-> token_clock]}
    /\ UNCHANGED <<token_clock, validated>>

\* the signatures a client can put in a token: those of the tokens issued,
\* the signature of the same value and timestamp made for another purpose
\* (another salt), and a string of its own
KnownSignatures(value, timestamp) ==
    {signature(_SALT, r.order_number, r.at) : r \in issued}
        \cup {signature("other_purpose", value, timestamp),
              signature("other_purpose", value, -1),
              signature("junk", value, -1)}

\* the tokens a client can present: any value and timestamp with any
\* signature it knows, with or without the separators
PresentableTokens ==
    UNION {{[parts |-> k, value |-> v, timestamp |-> t, sig |-> x] :
               x \in KnownSignatures(v, t), k \in 1..3} :
           v \in OrderNumbers, t \in 0..MaxTokenTime}

\* a tracking request: the view validates the token of the query string
ValidateToken(token) ==
    /\ validated' = [token |-> token,
                     result |-> validate_order_tracking_token(token, token_clock)]
    /\ UNCHANGED <<token_clock, issued>>

TokenTick ==
    /\ token_clock < MaxTokenTime
    /\ token_clock' = token_clock + 1
    /\ UNCHANGED <<issued, validated>>

----------------------------------------------------------------------------
(* The sweeps row by row, beside the callback *)

RaceInit ==
    /\ stuck_loaded = {}
    /\ pending_loaded = {}
    /\ notifications = [t \in TxnIds |-> [confirmation |-> 0, failed |-> 0]]

\* send_payment_confirmation_email.delay(id), send_payment_failed_notification
\* .delay(id)
Enqueued(n, t, task) ==
    CASE task = "confirmation" -> [n EXCEPT ![t].confirmation = @ + 1]
      [] task = "failed"       -> [n EXCEPT ![t].failed = @ + 1]
      [] OTHER                 -> n

\* auto_timeout_stuck_transactions, `for transaction in stuck_transactions`:
\* the queryset is evaluated, the rows are fetched into instances
auto_timeout_fetch ==
    /\ SweepDue
    /\ stuck_loaded = {}
    /\ stuck_loaded' = StuckTransactions
    /\ lastSweep' = now
    /\ timed_out' = {}
    /\ UNCHANGED <<now, status, initiated_at, pending_loaded, notifications>>

\* the body of the loop for one fetched instance: status = 'timeout', save(),
\* send_payment_failed_notification.delay
auto_timeout_save(t) ==
    /\ t \in stuck_loaded
    /\ status' = [status EXCEPT ![t] = "timeout"]
    /\ notifications' = Enqueued(notifications, t, "failed")
    /\ stuck_loaded' = stuck_loaded \ {t}
    /\ timed_out' = timed_out \cup {t}
    /\ UNCHANGED <<now, lastSweep, initiated_at, pending_loaded>>

\* check_pending_transactions, `for transaction in pending_transactions`
check_pending_fetch ==
    /\ pending_loaded = {}
    /\ PendingTransactions # {}
    /\ pending_loaded' = PendingTransactions
    /\ UNCHANGED <<now, lastSweep, status, initiated_at, timed_out,
                   stuck_loaded, notifications>>

\* the notification check_pending_transactions sends for the status of the
\* transaction that check_payment_status returns
NotificationFor(updated_status) ==
    CASE updated_status = "completed" -> "confirmation"
      [] updated_status \in {"failed", "cancelled", "timeout"} -> "failed"
      [] OTHER -> "none"

\* the body of the loop for one fetched instance: check_payment_status stores
\* the provider's answer on a transaction that is still processing and
\* returns the transaction as stored
check_pending_query(t, result) ==
    /\ t \in pending_loaded
    /\ status' = SettledBy(t, result)
    /\ notifications' =
          Enqueued(notifications, t, NotificationFor(SettledBy(t, result)[t]))
    /\ pending_loaded' = pending_loaded \ {t}
    /\ UNCHANGED <<now, lastSweep, initiated_at, timed_out, stuck_loaded>>

\* process_mpesa_callback_task succeeds: the callback settles its transaction
process_stk_callback(t, result) ==
    /\ status[t] = "processing"
    /\ status' = SettledBy(t, result)
    /\ UNCHANGED <<now, lastSweep, initiated_at, timed_out, raceVars>>

\* time passes once the runs under way have ended
RaceTick ==
    /\ stuck_loaded = {}
    /\ pending_loaded = {}
    /\ Tick
    /\ UNCHANGED raceVars

----------------------------------------------------------------------------
(* The order sweeps row by row, beside payment processing *)

\* an order that a run has not fetched
NotLoaded == "not_loaded"

OrderRaceInit ==
    /\ cancel_loaded = [o \in OrderIds |-> NotLoaded]
    /\ confirm_loaded = {}
    /\ pay_loaded = [o \in OrderIds |-> NotLoaded]

\* auto_cancel_unpaid_orders, `for order in orders_to_cancel`: the queryset
\* is evaluated, the rows are fetched into instances
auto_cancel_fetch ==
    /\ \A o \in OrderIds : cancel_loaded[o] = NotLoaded
    /\ OrdersToCancel # {}
    /\ cancel_loaded' = [o \in OrderIds |->
          IF o \in OrdersToCancel THEN orders[o].payment_status ELSE NotLoaded]
    /\ UNCHANGED <<stock_quantity, orders, confirm_loaded, pay_loaded>>

\* the body of the loop for one fetched instance: status = 'cancelled',
\* order.save() writes every field of the instance, then the items are
\* restocked
auto_cancel_save(o) ==
    /\ cancel_loaded[o] # NotLoaded
    /\ orders' = [orders EXCEPT ![o].status = "cancelled",
                                ![o].payment_status = cancel_loaded[o]]
    /\ stock_quantity' = Restocked(stock_quantity, orders[o].items, 1)
    /\ cancel_loaded' = [cancel_loaded EXCEPT ![o] = NotLoaded]
    /\ UNCHANGED <<confirm_loaded, pay_loaded>>

\* the queryset of auto_confirm_paid_orders:
\* filter(status='pending', payment_status='paid')
OrdersToConfirm ==
    {o \in DOMAIN orders :
        orders[o].status = "pending" /\ orders[o].payment_status = "paid"}

\* auto_confirm_paid_orders, `for order in orders_to_confirm`
auto_confirm_fetch ==
    /\ confirm_loaded = {}
    /\ OrdersToConfirm # {}
    /\ confirm_loaded' = OrdersToConfirm
    /\ UNCHANGED <<stock_quantity, orders, cancel_loaded, pay_loaded>>

\* the body of the loop for one fetched instance (pending, paid):
\* status = 'confirmed', order.save()
auto_confirm_save(o) ==
    /\ o \in confirm_loaded
    /\ orders' = [orders EXCEPT ![o].status = "confirmed",
                                ![o].payment_status = "paid"]
    /\ confirm_loaded' = confirm_loaded \ {o}
    /\ UNCHANGED <<stock_quantity, cancel_loaded, pay_loaded>>

\* payment processing loads the order of a completed transaction
payment_load(o) ==
    /\ o \in DOMAIN orders
    /\ pay_loaded[o] = NotLoaded
    /\ orders[o].payment_status # "paid"
    /\ pay_loaded' = [pay_loaded EXCEPT ![o] = orders[o].status]
    /\ UNCHANGED <<stock_quantity, orders, cancel_loaded, confirm_loaded>>

\* payment processing marks the order paid: payment_status = 'paid',
\* order.save()
payment_save(o) ==
    /\ pay_loaded[o] # NotLoaded
    /\ orders' = [orders EXCEPT ![o].payment_status = "paid",
                                ![o].status = pay_loaded[o]]
    /\ pay_loaded' = [pay_loaded EXCEPT ![o] = NotLoaded]
    /\ UNCHANGED <<stock_quantity, cancel_loaded, confirm_loaded>>

----------------------------------------------------------------------------
(* Order status changes, their history and the tasks they start *)

OrderStatuses ==
    {"pending", "processing", "shipped", "out_for_delivery", "delivered",
     "cancelled"}

\* no Order.save call under way
NoOrderSave == [status |-> "none", before |-> "none"]

\* Order.total of the orders placed, below and above the 100 KSh of a point
OrderTotals == {50, 250}

StatusInit ==
    /\ order_row = [status |-> "none", customer |-> "none", is_guest |-> FALSE,
                    total |-> 0]
    /\ loyalty_points = [c \in Customers |-> 0]
    /\ loyalty_notifications = [c \in Customers |-> 0]
    /\ order_saving = NoOrderSave
    /\ order_saves = 0
    /\ status_history = <<>>
    /\ status_tasks = <<>>
    /\ award_queue = 0
    /\ award_runs = 0

HistoryRecord(old_status, new_status) ==
    [old_status |-> old_status, new_status |-> new_status]

\* OrderCreateSerializer.create: the customer is request.user.customer, or
\* for a guest the guest Customer found or created for guest_email;
\* Order.objects.create(customer=customer, is_guest=is_guest, ...), on which
\* order_post_save (created) records the initial status, and the serializer's
\* own "Create initial status history"
OrderCreate(customer, total) ==
    /\ order_row.status = "none"
    /\ order_row' = [status |-> "pending", customer |-> customer,
                     is_guest |-> (customer = "guest"), total |-> total]
    /\ status_history' = status_history \o
          <<HistoryRecord("", "pending"), HistoryRecord("", "pending")>>
    /\ UNCHANGED <<order_saving, order_saves, status_tasks, award_queue,
                   award_runs, loyalty_points, loyalty_notifications>>

\* order.save() on the existing order with instance.status = new_status, up
\* to the post_save signal: order_pre_save does nothing, the row is written.
\* before keeps the status stored before the save
Order_save(new_status) ==
    /\ order_row.status # "none"
    /\ order_saving = NoOrderSave
    /\ order_saves < MaxSaves
    /\ order_saves' = order_saves + 1
    /\ order_row' = [order_row EXCEPT !.status = new_status]
    /\ order_saving' = [status |-> new_status, before |-> order_row.status]
    /\ UNCHANGED <<status_history, status_tasks, award_queue, award_runs,
                   loyalty_points, loyalty_notifications>>

\* order_post_save, existing order: old_instance = Order.objects.get(pk),
\* the row as stored now
old_instance_status == order_row.status

order_post_save ==
    /\ order_saving # NoOrderSave
    /\ IF old_instance_status # order_saving.status
       THEN /\ status_tasks' = Append(status_tasks,
                   HistoryRecord(old_instance_status, order_saving.status))
            /\ status_history' = Append(status_history,
                   HistoryRecord(old_instance_status, order_saving.status))
       ELSE UNCHANGED <<status_tasks, status_history>>
    /\ order_saving' = NoOrderSave
    /\ UNCHANGED <<order_row, order_saves, award_queue, award_runs,
                   loyalty_points, loyalty_notifications>>

\* OrderAdmin.mark_as_shipped: order.status = 'shipped', order.save()
mark_as_shipped == Order_save("shipped")

\* sync_tracking_updates for an order with status shipped or
\* out_for_delivery whose carrier reports tracking_status
sync_tracking_updates(tracking_status) ==
    /\ order_row.status \in {"shipped", "out_for_delivery"}
    /\ tracking_status # order_row.status
    /\ Order_save(tracking_status)

\* OrderAdmin.mark_as_processing, mark_as_delivered, mark_as_cancelled:
\* queryset.update(status=...), which sends no signal
queryset_update(new_status) ==
    /\ order_row.status # "none"
    /\ order_row' = [order_row EXCEPT !.status = new_status]
    /\ UNCHANGED <<order_saving, order_saves, status_history, status_tasks,
                   award_queue, award_runs, loyalty_points,
                   loyalty_notifications>>

mark_as_delivered == queryset_update("delivered")

\* a worker runs update_order_status_task(order_id, old_status, new_status)
update_order_status_task ==
    /\ status_tasks # <<>>
    /\ status_tasks' = Tail(status_tasks)
    /\ award_queue' = IF Head(status_tasks).new_status = "delivered"
                      THEN award_queue + 1 ELSE award_queue
    /\ UNCHANGED <<order_row, order_saving, order_saves, status_history,
                   award_runs, loyalty_points, loyalty_notifications>>

\* award_order_loyalty_points, "Calculate points (1 point per 100 KSh)"
points_to_award(order) == order.total \div 100

\* a worker runs award_order_loyalty_points(order_id): an order without a
\* customer is skipped; otherwise the points, when positive, are added to
\* order.customer and send_loyalty_points_notification is enqueued
award_order_loyalty_points ==
    /\ award_queue > 0
    /\ award_queue' = award_queue - 1
    /\ award_runs' = award_runs + 1
    /\ IF order_row.customer = "none" \/ ~(points_to_award(order_row) > 0)
       THEN UNCHANGED <<loyalty_points, loyalty_notifications>>
       ELSE /\ loyalty_points' =
                  [loyalty_points EXCEPT ![order_row.customer] =
                      @ + points_to_award(order_row)]
            /\ loyalty_notifications' =
                  [loyalty_notifications EXCEPT ![order_row.customer] = @ + 1]
    /\ UNCHANGED <<order_row, order_saving, order_saves, status_history,
                   status_tasks>>

----------------------------------------------------------------------------
(* Notification email tasks *)

\* the email tasks declared with @shared_task(bind=True, max_retries=3)
EmailTasks == {"send_order_confirmation_email",
               "send_payment_confirmation_email", "send_welcome_email"}

\* no execution of the task so far
NoOutcome == "none"

EmailInit ==
    /\ email_queue = [t \in EmailTasks |-> <<>>]
    /\ email_runs = [t \in EmailTasks |-> 0]
    /\ email_state = [t \in EmailTasks |-> "NONE"]
    /\ email_last = [t \in EmailTasks |-> NoOutcome]
    /\ record_exists = [t \in EmailTasks |-> FALSE]

\* countdown=60 * (2 ** self.request.retries)
countdown(retries) == 60 * (2 ^ retries)

\* self.retry(exc=exc, countdown=c) at request.retries = r: past max_retries it
\* raises exc without publishing; otherwise it publishes the task again with
\* retries = r + 1 to run after c seconds, and raises Retry
retry_countdown(q, r, c) ==
    IF r + 1 > max_retries THEN q
    ELSE Append(q, [retries |-> r + 1, countdown |-> c])

\* what one execution of a task does
\*   "missing": the .get(id=...) raised DoesNotExist
\*   "false":   OrderNotifications.send_email_notification returned False
\*   "raise":   a statement of the try block raised another exception
\*   "no_customer": the transaction has no customer to write to
\*   "success": the email was sent
Outcomes(t, exists) ==
    IF ~exists THEN {"missing"}
    ELSE CASE t = "send_order_confirmation_email" ->
                  {"success", "false", "raise"}
           [] t = "send_payment_confirmation_email" ->
                  {"success", "no_customer", "raise"}
           [] t = "send_welcome_email" -> {"success", "raise"}

\* send_order_confirmation_email with the False of send_email_notification
\* answered by a self.retry inside the try block
send_order_confirmation_emailRetryInTry(q, r, outcome) ==
    CASE outcome = "missing" -> q
      [] outcome = "success" -> q
      [] outcome = "false"   ->
             retry_countdown(retry_countdown(q, r, countdown(r)), r,
                             countdown(r))
      [] outcome = "raise"   -> retry_countdown(q, r, countdown(r))

\* send_order_confirmation_email: the messages queued after one execution;
\* `except Order.DoesNotExist: raise`; on False the try block raises
\* Exception("Failed to send email"), which `except Exception` answers, as
\* any other exception, with self.retry
send_order_confirmation_email(q, r, outcome) ==
    CASE outcome = "missing" -> q
      [] outcome = "success" -> q
      [] outcome = "false"   -> retry_countdown(q, r, countdown(r))
      [] outcome = "raise"   -> retry_countdown(q, r, countdown(r))

\* send_payment_confirmation_email: `except MpesaTransaction.DoesNotExist:
\* raise`; without a customer it returns; `except Exception` retries
send_payment_confirmation_email(q, r, outcome) ==
    CASE outcome = "missing"     -> q
      [] outcome = "success"     -> q
      [] outcome = "no_customer" -> q
      [] outcome = "raise"       -> retry_countdown(q, r, countdown(r))

\* send_welcome_email: `except User.DoesNotExist: raise`; `except Exception`
\* retries
send_welcome_email(q, r, outcome) ==
    CASE outcome = "missing" -> q
      [] outcome = "success" -> q
      [] outcome = "raise"   -> retry_countdown(q, r, countdown(r))

EmailTaskBody(t, q, r, outcome) ==
    CASE t = "send_order_confirmation_email" ->
             send_order_confirmation_email(q, r, outcome)
      [] t = "send_payment_confirmation_email" ->
             send_payment_confirmation_email(q, r, outcome)
      [] t = "send_welcome_email" -> send_welcome_email(q, r, outcome)

\* the state Celery records for the execution
TaskState(q, qAfter, outcome) ==
    IF outcome \in {"success", "no_customer"} THEN "SUCCESS"
    ELSE IF Len(qAfter) > Len(q) THEN "RETRY" ELSE "FAILURE"

\* .delay(id): the task is enqueued once, for a record that exists or an id
\* that names none
EnqueueEmail(t, exists) ==
    /\ email_state[t] = "NONE"
    /\ email_queue' = [email_queue EXCEPT
                          ![t] = <<[retries |-> 0, countdown |-> 0]>>]
    /\ email_state' = [email_state EXCEPT ![t] = "PENDING"]
    /\ record_exists' = [record_exists EXCEPT ![t] = exists]
    /\ UNCHANGED <<email_runs, email_last>>

\* the record the task is about is deleted while a message is waiting
DeleteRecord(t) ==
    /\ record_exists[t]
    /\ email_queue[t] # <<>>
    /\ record_exists' = [record_exists EXCEPT ![t] = FALSE]
    /\ UNCHANGED <<email_queue, email_runs, email_state, email_last>>

\* the sequence q without its i-th element
RemoveAt(q, i) == SubSeq(q, 1, i - 1) \o SubSeq(q, i + 1, Len(q))

\* a worker executes the i-th queued message of task t
RunEmailTask(t, i, outcome) ==
    /\ i \in 1..Len(email_queue[t])
    /\ outcome \in Outcomes(t, record_exists[t])
    /\ LET q == RemoveAt(email_queue[t], i)
           qAfter == EmailTaskBody(t, q, email_queue[t][i].retries, outcome)
       IN /\ email_queue' = [email_queue EXCEPT ![t] = qAfter]
          /\ email_state' = [email_state EXCEPT
                                ![t] = TaskState(q, qAfter, outcome)]
    /\ email_runs' = [email_runs EXCEPT ![t] = @ + 1]
    /\ email_last' = [email_last EXCEPT ![t] = outcome]
    /\ UNCHANGED record_exists

----------------------------------------------------------------------------
(* One run of check_pending_transactions, transaction by transaction *)

\* MpesaTransaction.checkout_request_id: empty until the STK push is accepted
CheckoutRequestIds == {"", "ws_CO_1"}

NoRun == [phase |-> "idle", started_at |-> 0, cutoff_time |-> 0]

PendingRunInit ==
    /\ transactions = [t \in TxnIds |->
                          [status |-> "none", initiated_at |-> 0,
                           checkout_request_id |-> ""]]
    /\ run_now = 0
    /\ pending_run = NoRun
    /\ rows_at_fetch = transactions
    /\ pending_transactions = {}
    /\ queries = [t \in TxnIds |-> 0]
    /\ raised = {}
    /\ checked_count = 0

\* a transaction record is stored: in any status, with or without the
\* checkout_request_id of an accepted STK push
StoreTransaction(t, s, id) ==
    /\ pending_run.phase # "running"
    /\ transactions[t].status = "none"
    /\ transactions' = [transactions EXCEPT
                           ![t] = [status |-> s, initiated_at |-> run_now,
                                   checkout_request_id |-> id]]
    /\ UNCHANGED <<run_now, pending_run, rows_at_fetch, pending_transactions,
                   queries, raised, checked_count>>

\* MpesaTransaction.objects.filter(status='processing',
\* initiated_at__lte=cutoff_time).exclude(checkout_request_id='')
pending_queryset(rows, cutoff_time) ==
    {t \in TxnIds : /\ rows[t].status = "processing"
                    /\ rows[t].initiated_at <= cutoff_time
                    /\ rows[t].checkout_request_id # ""}

\* check_pending_transactions up to the first iteration of its loop: the
\* cutoff is computed and the queryset is fetched
check_pending_start ==
    /\ pending_run.phase # "running"
    /\ pending_run' = [phase |-> "running", started_at |-> run_now,
                       cutoff_time |-> run_now - FiveMinutes]
    /\ pending_transactions' =
          pending_queryset(transactions, run_now - FiveMinutes)
    /\ rows_at_fetch' = transactions
    /\ queries' = [t \in TxnIds |-> 0]
    /\ raised' = {}
    /\ checked_count' = 0
    /\ UNCHANGED <<transactions, run_now>>

\* the loop body with an exception of one transaction ending the loop
check_pending_iterationAbortOnError(t, raises, result) ==
    /\ pending_run.phase = "running"
    /\ t \in pending_transactions
    /\ checked_count' = checked_count + 1
    /\ queries' = [queries EXCEPT ![t] = @ + 1]
    /\ IF raises
       THEN /\ raised' = raised \cup {t}
            /\ pending_transactions' = {}
            /\ UNCHANGED transactions
       ELSE /\ transactions' = [transactions EXCEPT ![t].status = result]
            /\ pending_transactions' = pending_transactions \ {t}
            /\ UNCHANGED raised
    /\ UNCHANGED <<run_now, pending_run, rows_at_fetch>>

\* one iteration of `for transaction in pending_transactions`: checked_count
\* is increased and service.check_payment_status queries the provider, which
\* either raises (`except Exception as trans_exc: ... continue`) or stores
\* the status reported on the transaction
check_pending_iteration(t, raises, result) ==
    /\ pending_run.phase = "running"
    /\ t \in pending_transactions
    /\ checked_count' = checked_count + 1
    /\ queries' = [queries EXCEPT ![t] = @ + 1]
    /\ IF raises
       THEN /\ raised' = raised \cup {t}
            /\ UNCHANGED transactions
       ELSE /\ transactions' = [transactions EXCEPT ![t].status = result]
            /\ UNCHANGED raised
    /\ pending_transactions' = pending_transactions \ {t}
    /\ UNCHANGED <<run_now, pending_run, rows_at_fetch>>

\* the loop is over: the run logs its counts and returns
check_pending_return ==
    /\ pending_run.phase = "running"
    /\ pending_transactions = {}
    /\ pending_run' = [pending_run EXCEPT !.phase = "returned"]
    /\ UNCHANGED <<transactions, run_now, rows_at_fetch,
                   pending_transactions, queries, raised, checked_count>>

\* time passes between the runs
PendingRunTick ==
    /\ pending_run.phase # "running"
    /\ run_now < MaxClock
    /\ run_now' = run_now + 1
    /\ UNCHANGED <<transactions, pending_run, rows_at_fetch,
                   pending_transactions, queries, raised, checked_count>>

----------------------------------------------------------------------------
(* Stock alerts of one warehouse stock row *)

MaxQuantity == 4

Quantities == 0..MaxQuantity

\* WarehouseStock.reorder_point and reorder_quantity
ReorderLevels == {0, 1}

AlertTypes == {"out_of_stock", "low_stock", "reorder_point", "overstock"}

AlertInit ==
    /\ warehouse_stock = [quantity |-> 0, reorder_point |-> 0,
                          reorder_quantity |-> 0]
    /\ unresolved_alerts = {}
    /\ alerts_created = {}
    /\ monitored = FALSE

\* a stock movement or a change of the reorder settings writes the row
SaveWarehouseStock(quantity, reorder_point, reorder_quantity) ==
    /\ warehouse_stock' = [quantity |-> quantity,
                           reorder_point |-> reorder_point,
                           reorder_quantity |-> reorder_quantity]
    /\ warehouse_stock' # warehouse_stock
    /\ monitored' = FALSE
    /\ UNCHANGED <<unresolved_alerts, alerts_created>>

\* WarehouseStock.needs_reorder: the quantity is at or below the reorder point
needs_reorder(stock) == stock.quantity <= stock.reorder_point

\* the branch of the if/elif chain that monitor_stock_levels takes for a row
monitor_branch(stock) ==
    IF stock.quantity = 0 THEN "out_of_stock"
    ELSE IF stock.quantity <= stock.reorder_point /\ stock.reorder_point > 0
    THEN "low_stock"
    ELSE IF needs_reorder(stock) THEN "reorder_point"
    ELSE IF /\ stock.reorder_quantity > 0
            /\ stock.quantity > stock.reorder_quantity * 3
    THEN "overstock"
    ELSE "resolve"

\* one run of monitor_stock_levels over the row of an active warehouse: the
\* first four branches get_or_create the unresolved alert of their type, the
\* else branch marks the low_stock, out_of_stock and reorder_point alerts of
\* the row resolved
monitor_stock_levels ==
    /\ LET branch == monitor_branch(warehouse_stock)
       IN IF branch = "resolve"
          THEN /\ unresolved_alerts' =
                     unresolved_alerts
                        \ {"low_stock", "out_of_stock", "reorder_point"}
               /\ alerts_created' = {}
          ELSE /\ unresolved_alerts' = unresolved_alerts \cup {branch}
               /\ alerts_created' = {branch} \ unresolved_alerts
    /\ monitored' = TRUE
    /\ UNCHANGED warehouse_stock

----------------------------------------------------------------------------
(* The daily reconciliation report *)

\* MpesaTransaction.status of a stored transaction
TransactionStatuses ==
    {"pending", "processing", "completed", "failed", "cancelled", "timeout"}

\* MpesaTransaction.result_code: not set, success, or the code of a failure
\* (1032: request cancelled by the user)
ResultCodes == {NULL, 0, 1032}

NoReport == [total |-> -1, successful |-> -1, failed |-> -1, pending |-> -1,
             cancelled |-> -1]

ReconInit ==
    /\ todays_transactions = [t \in TxnIds |->
                                 [status |-> "none", result_code |-> NULL]]
    /\ report = NoReport

\* a transaction initiated today is stored or updated with a status and a
\* result code
SaveTransaction(t, s, result_code) ==
    /\ todays_transactions' =
          [todays_transactions EXCEPT
              ![t] = [status |-> s, result_code |-> result_code]]
    /\ todays_transactions' # todays_transactions
    /\ UNCHANGED report

\* transactions = MpesaTransaction.objects.filter(initiated_at__date=today)
TodaysQueryset(rows) == {t \in TxnIds : rows[t].status # "none"}

\* reconcile_daily_transactions, 'transactions' of the report: the five
\* .count() queries
reconciliation_report(rows) ==
    LET todays == TodaysQueryset(rows)
    IN [total |-> Cardinality(todays),
        successful |->
            Cardinality({t \in todays :
                            /\ rows[t].status = "completed"
                            /\ rows[t].result_code = 0}),
        failed |->
            Cardinality({t \in todays : rows[t].status = "failed"}),
        pending |->
            Cardinality({t \in todays :
                            rows[t].status \in {"pending", "processing"}}),
        cancelled |->
            Cardinality({t \in todays :
                            rows[t].status \in {"cancelled", "timeout"}})]

\* one run of reconcile_daily_transactions
reconcile_daily_transactions ==
    /\ report' = reconciliation_report(todays_transactions)
    /\ UNCHANGED todays_transactions

----------------------------------------------------------------------------
(* Claims about the payment sweeps and the callback task *)

C2_ProcessingAtMostThreeHours ==
    \A t \in TxnIds :
       status[t] = "processing" => now - initiated_at[t] <= 3 * TicksPerHour

\* C2 witness: a transaction that stayed in 'processing' was timed out by the
\* sweep in the last tick before the 3-hour deadline
C2_Witness ==
    /\ lastSweep = now
    /\ \E t \in timed_out :
          /\ status[t] = "timeout"
          /\ now - initiated_at[t] = 3 * TicksPerHour - 1

\* C3: for one received callback, process_mpesa_callback_task is executed at
\* most max_retries + 1 = 4 times.
C3_AtMostFourExecutions ==
    cbRuns <= max_retries + 1

\* C4: every Product.stock_quantity is greater than or equal to 0 after any
\* sequence of order creations, auto_cancel_unpaid_orders runs, update_stock
\* requests and sync_product_stock_from_warehouses runs.
C4_StockNonNegative ==
    \A p \in Products : stock_quantity[p] >= 0

\* C4 witness: an order listing one product on two lines has been created and
\* another order has been cancelled and restocked, with the stock used up
C4_Witness ==
    /\ \E o \in DOMAIN orders :
          /\ orders[o].status = "pending"
          /\ Len(orders[o].items) = 2
          /\ orders[o].items[1].product = orders[o].items[2].product
          /\ stock_quantity[orders[o].items[1].product] = 0
    /\ \E o \in DOMAIN orders : orders[o].status = "cancelled"

\* C5: for every customer and every address type, at most one Address has
\* is_default = True.
C5_OneDefaultPerType ==
    \A c \in Customers, type \in AddressTypes :
       Cardinality({i \in DOMAIN addresses :
                       /\ addresses[i].customer = c
                       /\ addresses[i].address_type = type
                       /\ addresses[i].is_default}) <= 1

\* C6: for every product, at most one ProductImage has is_primary = True once
\* the ProductImage.save calls under way have returned.
C6_OnePrimaryPerProduct ==
    (\A w \in Workers : saving[w] = NoSave) =>
       \A p \in Products :
          Cardinality({i \in DOMAIN images :
                          images[i].product = p /\ images[i].is_primary}) <= 1

\* C9: at most one Review exists for each (product, customer) pair, and a
\* creation never removes or changes a review that exists.
C9_OneReviewPerPair ==
    [][/\ \A r \in reviews : r \in reviews'
       /\ \A x, y \in reviews' :
             (x.product = y.product /\ x.customer = y.customer) => x = y]_vars

\* C9 witness: a second creation for a pair passed validation beside the
\* first and was rejected by the database, the first review being kept
C9_Witness ==
    /\ review_response = "integrity_error"
    /\ Cardinality(reviews) = 1
    /\ \A w \in Workers : posting[w] = NoPost

\* C7: a writing endpoint of ProductViewSet changes a product only when the
\* requester is an admin.
C7_OnlyAdminsWrite ==
    [][catalog' # catalog => response'.user = "admin"]_vars

\* C8: current_price equals sale_price only while the sale is on; in
\* particular a sale_price whose sale_ends_at has passed is never returned
\* (where it differs from the discounted price).
C8_ExpiredSaleNeverReturned ==
    (/\ product.sale_price # NULL
     /\ product.sale_ends_at # NULL
     /\ product.sale_ends_at < clock
     /\ product.sale_price # final_price(product))
       => current_price(product) # product.sale_price

\* C10: after the sale-expiry task has run, no product whose sale_ends_at
\* lies in the past has is_on_sale = True or a non-null sale_price.
C10_ExpiredSalesCleared ==
    expiry_ran =>
       ~(/\ product.sale_ends_at # NULL
         /\ product.sale_ends_at < clock
         /\ (product.is_on_sale \/ product.sale_price # NULL))

\* C11: a product that is inactive with a publish_date becomes active and
\* published once its publish_date has passed and the scheduled products
\* tasks have run; it does not stay inactive forever.
C11_ScheduledBecomesActive ==
    (~product_row.is_active /\ product_row.publish_date # NULL /\ product_row.publish_date <= row_clock)
       ~> (product_row.is_active /\ is_published(product_row))

\* C12: validate_order_tracking_token returns an order number n only for a
\* token that generate_order_tracking_token produced for n at most 14 days
\* earlier; for every other token (older, altered, signed for another
\* purpose, malformed) it returns None, and it never raises.  Stated of every
\* step that validates a token (the only steps that change validated).
C12_TokenValidation ==
    [][validated' # validated =>
          LET fresh == {r \in issued :
                  /\ validated'.token =
                        generate_order_tracking_token(r.order_number, r.at)
                  /\ token_clock - r.at <= ORDER_TRACKING_TOKEN_MAX_AGE}
          IN /\ validated'.result \in OrderNumbers \cup {None}
             /\ fresh = {} => validated'.result = None
             /\ \A r \in fresh : validated'.result = r.order_number]_vars

\* C12 witness: a token has been accepted at the age of exactly 14 days
C12_Witness ==
    /\ validated.result \in OrderNumbers
    /\ token_clock - validated.token.timestamp = ORDER_TRACKING_TOKEN_MAX_AGE

\* C15: a transaction whose status is 'completed', 'failed' or 'cancelled' is
\* never afterwards changed to 'timeout', also when the callback or
\* check_pending_transactions settles it between the sweep's fetch and save.
C15_SettledNeverTimedOut ==
    [][\A t \in TxnIds :
          status[t] \in {"completed", "failed", "cancelled"} =>
             status'[t] # "timeout"]_vars

\* C16: for every transaction at most one outcome notification is enqueued
\* over any interleaving of the two sweeps, and once the runs have ended it
\* matches the transaction's status.
C16_OneMatchingNotification ==
    \A t \in TxnIds :
       /\ notifications[t].confirmation + notifications[t].failed <= 1
       /\ (stuck_loaded = {} /\ pending_loaded = {}) =>
             /\ notifications[t].confirmation = 1 => status[t] = "completed"
             /\ notifications[t].failed = 1 =>
                   status[t] \in {"failed", "cancelled", "timeout"}

\* the total quantity of product p on the lines of the orders not cancelled
RECURSIVE QuantityOnLines(_, _, _)
QuantityOnLines(items, p, i) ==
    IF i > Len(items) THEN 0
    ELSE (IF items[i].product = p THEN items[i].quantity ELSE 0)
            + QuantityOnLines(items, p, i + 1)

RECURSIVE QuantityOrdered(_, _)
QuantityOrdered(p, o) ==
    IF o > Len(orders) THEN 0
    ELSE (IF orders[o].status # "cancelled"
          THEN QuantityOnLines(orders[o].items, p, 1) ELSE 0)
            + QuantityOrdered(p, o + 1)

\* C17: with no manual stock edits or warehouse syncs, for every product
\* stock_quantity plus the quantity of the product in all non-cancelled
\* orders equals the product's initial stock_quantity.
C17_StockConserved ==
    \A p \in Products : stock_quantity[p] + QuantityOrdered(p, 1) = MaxStock

\* C18: no order has payment_status 'paid' and status 'cancelled', in any
\* interleaving of auto_cancel_unpaid_orders with payment processing and
\* auto_confirm_paid_orders.
C18_NoPaidCancelled ==
    \A o \in DOMAIN orders :
       ~(orders[o].payment_status = "paid" /\ orders[o].status = "cancelled")

\* C19: whenever an existing order is saved with a status different from the
\* status stored before the save, order_post_save creates exactly one
\* OrderStatusHistory record holding the old and the new status and enqueues
\* update_order_status_task(order id, old status, new status).
C19_StatusChangeRecorded ==
    [][(order_saving # NoOrderSave /\ order_saving' = NoOrderSave
        /\ order_saving.before # order_saving.status) =>
          /\ status_history' = Append(status_history,
                HistoryRecord(order_saving.before, order_saving.status))
          /\ status_tasks' = Append(status_tasks,
                HistoryRecord(order_saving.before, order_saving.status))]_vars

\* C20: every order of a registered customer that reaches status 'delivered'
\* eventually has award_order_loyalty_points run for it.
C20_DeliveredAwarded ==
    (order_row.status = "delivered" /\ order_row.customer = "registered")
       ~> (award_runs > 0)

\* C21: a run of award_order_loyalty_points for an order created by a guest
\* (is_guest = True) changes no customer's loyalty_points and enqueues no
\* loyalty notification.
C21_NoPointsForGuestOrders ==
    [][(award_runs' # award_runs /\ order_row.is_guest) =>
          UNCHANGED <<loyalty_points, loyalty_notifications>>]_vars

\* C22: each of send_order_confirmation_email,
\* send_payment_confirmation_email and send_welcome_email fails at once
\* without a retry when the record it is about does not exist; on any other
\* failure it is retried with the countdowns 60, 120 and 240 seconds and then
\* gives up; it is executed at most 4 times per enqueue.
C22_EmailRetries ==
    \A t \in EmailTasks :
       /\ email_runs[t] <= max_retries + 1
       /\ Len(email_queue[t]) <= 1
       /\ \A i \in 1..Len(email_queue[t]) :
             /\ email_queue[t][i].retries = email_runs[t]
             /\ email_runs[t] > 0 =>
                   /\ email_queue[t][i].countdown
                         = <<60, 120, 240>>[email_runs[t]]
                   /\ email_state[t] = "RETRY"
       /\ email_last[t] = "missing" =>
             /\ email_queue[t] = <<>>
             /\ email_state[t] = "FAILURE"
       /\ email_last[t] \in {"false", "raise"} =>
             \/ email_state[t] = "RETRY" /\ Len(email_queue[t]) = 1
             \/ /\ email_state[t] = "FAILURE"
                /\ email_queue[t] = <<>>
                /\ email_runs[t] = max_retries + 1

\* C22 witness: one task has given up after its fourth execution, another
\* has failed on a missing record in its first, and a third waits for its
\* retry after 240 seconds
C22_Witness ==
    \E t1, t2, t3 \in EmailTasks :
       /\ email_runs[t1] = 4 /\ email_state[t1] = "FAILURE"
       /\ email_last[t1] \in {"false", "raise"}
       /\ email_runs[t2] = 1 /\ email_last[t2] = "missing"
       /\ email_state[t2] = "FAILURE"
       /\ email_queue[t3] = <<[retries |-> 3, countdown |-> 240]>>

\* C23: in a run of check_pending_transactions every transaction that was in
\* 'processing', initiated at least 5 minutes earlier and with a non-empty
\* checkout_request_id is checked exactly once, also when the check of
\* another transaction raises; a transaction in any other status is not
\* queried.
C23_EachPendingCheckedOnce ==
    \A t \in TxnIds :
       LET row == rows_at_fetch[t]
           due == /\ row.status = "processing"
                  /\ row.initiated_at + FiveMinutes <= pending_run.started_at
                  /\ row.checkout_request_id # ""
       IN /\ pending_run.phase = "returned" =>
                queries[t] = IF due THEN 1 ELSE 0
          /\ pending_run.phase = "running" =>
                /\ queries[t] <= 1
                /\ row.status # "processing" => queries[t] = 0

\* C23 witness: a run has returned in which the check of one transaction
\* raised and another transaction was checked after it, beside none left out
C23_Witness ==
    /\ pending_run.phase = "returned"
    /\ \E t1, t2 \in TxnIds :
          /\ t1 # t2
          /\ t1 \in raised /\ queries[t1] = 1
          /\ t2 \notin raised /\ queries[t2] = 1
          /\ transactions[t2].status = "completed"
    /\ checked_count = 2

\* C24: after a run of monitor_stock_levels no unresolved out_of_stock,
\* low_stock or reorder_point alert remains for a warehouse stock row that has
\* been replenished (quantity above zero and above its reorder point).
C24_ReplenishedAlertsResolved ==
    (/\ monitored
     /\ warehouse_stock.quantity > 0
     /\ warehouse_stock.quantity > warehouse_stock.reorder_point)
        => unresolved_alerts
              \cap {"out_of_stock", "low_stock", "reorder_point"} = {}

\* C25: in the report of reconcile_daily_transactions, successful + failed +
\* pending + cancelled = total, for every mix of statuses and result codes of
\* the day's transactions.
C25_ReportAddsUp ==
    report # NoReport =>
       report.successful + report.failed + report.pending + report.cancelled
          = report.total

C14_StockStatus ==
    LET p == listing
        s == stock_status(listing)
    IN /\ s = "low_stock" <=>
             (0 < p.stock_quantity /\ p.stock_quantity <= p.low_stock_threshold)
       /\ s = "in_stock" <=>
             (p.stock_quantity > p.low_stock_threshold /\ p.stock_quantity > 0)
       /\ p.stock_quantity = 0 =>
             s = (IF p.preorder_available THEN "preorder"
                  ELSE IF p.backorder_allowed THEN "backorder"
                  ELSE IF p.restock_date # NULL
                       THEN "out_of_stock_restock_scheduled"
                  ELSE "out_of_stock")
       /\ ~can_purchase(p) <=>
             s \in {"out_of_stock", "out_of_stock_restock_scheduled"}

\* C14 witness: a product at its threshold is 'low_stock' and purchasable
C14_Witness ==
    /\ listing.stock_quantity = listing.low_stock_threshold
    /\ listing.stock_quantity > 0
    /\ stock_status(listing) = "low_stock"
    /\ can_purchase(listing)

----------------------------------------------------------------------------
(* Specifications *)

Init ==
    /\ PayInit
    /\ CbInit
    /\ StockInit
    /\ AddrInit
    /\ ImgInit
    /\ RevInit
    /\ PriceInit
    /\ PermInit
    /\ RowInit
    /\ ListInit
    /\ TokenInit
    /\ RaceInit
    /\ OrderRaceInit
    /\ StatusInit
    /\ EmailInit
    /\ PendingRunInit
    /\ AlertInit
    /\ ReconInit

\* the variables each subsystem leaves alone
notPay ==
    <<cbVars, stockVars, addrVars, imgVars, revVars, priceVars, permVars,
      rowVars, listVars, tokenVars, orderRaceVars,
      statusVars, emailVars, pendingRunVars, alertVars, reconVars>>
notCallback ==
    <<stockVars, addrVars, imgVars, revVars, priceVars, permVars,
      rowVars, listVars, tokenVars, raceVars, orderRaceVars,
      statusVars, emailVars, pendingRunVars, alertVars, reconVars>>
notStock ==
    <<payVars, cbVars, addrVars, imgVars, revVars, priceVars, permVars,
      rowVars, listVars, tokenVars, raceVars,
      statusVars, emailVars, pendingRunVars, alertVars, reconVars>>
notAddr ==
    <<payVars, cbVars, stockVars, imgVars, revVars, priceVars, permVars,
      rowVars, listVars, tokenVars, raceVars, orderRaceVars,
      statusVars, emailVars, pendingRunVars, alertVars, reconVars>>
notImg ==
    <<payVars, cbVars, stockVars, addrVars, revVars, priceVars, permVars,
      rowVars, listVars, tokenVars, raceVars, orderRaceVars,
      statusVars, emailVars, pendingRunVars, alertVars, reconVars>>
notReview ==
    <<payVars, cbVars, stockVars, addrVars, imgVars, priceVars, permVars,
      rowVars, listVars, tokenVars, raceVars, orderRaceVars,
      statusVars, emailVars, pendingRunVars, alertVars, reconVars>>
notPrice ==
    <<payVars, cbVars, stockVars, addrVars, imgVars, revVars, permVars,
      rowVars, listVars, tokenVars, raceVars, orderRaceVars,
      statusVars, emailVars, pendingRunVars, alertVars, reconVars>>
notPerm ==
    <<payVars, cbVars, stockVars, addrVars, imgVars, revVars, priceVars,
      rowVars, listVars, tokenVars, raceVars, orderRaceVars,
      statusVars, emailVars, pendingRunVars, alertVars, reconVars>>

notRow == <<payVars, cbVars, stockVars, addrVars, imgVars, revVars, priceVars,
           permVars, listVars, tokenVars, raceVars, orderRaceVars,
      statusVars, emailVars, pendingRunVars, alertVars, reconVars>>
notList == <<payVars, cbVars, stockVars, addrVars, imgVars, revVars, priceVars,
            permVars, rowVars, tokenVars, raceVars, orderRaceVars,
      statusVars, emailVars, pendingRunVars, alertVars, reconVars>>
notToken == <<payVars, cbVars, stockVars, addrVars, imgVars, revVars, priceVars,
             permVars, rowVars, listVars, raceVars, orderRaceVars,
      statusVars, emailVars, pendingRunVars, alertVars, reconVars>>

notStatus ==
    <<payVars, cbVars, stockVars, addrVars, imgVars, revVars, priceVars,
      permVars, rowVars, listVars, tokenVars, raceVars, orderRaceVars,
      emailVars, pendingRunVars, alertVars, reconVars>>

notEmail ==
    <<payVars, cbVars, stockVars, addrVars, imgVars, revVars, priceVars,
      permVars, rowVars, listVars, tokenVars, raceVars, orderRaceVars,
      statusVars, pendingRunVars, alertVars, reconVars>>

notPendingRun ==
    <<payVars, cbVars, stockVars, addrVars, imgVars, revVars, priceVars,
      permVars, rowVars, listVars, tokenVars, raceVars, orderRaceVars,
      statusVars, emailVars,
      alertVars, reconVars>>

notAlert ==
    <<payVars, cbVars, stockVars, addrVars, imgVars, revVars, priceVars,
      permVars, rowVars, listVars, tokenVars, raceVars, orderRaceVars,
      statusVars, emailVars, pendingRunVars,
      reconVars>>

notRecon ==
    <<payVars, cbVars, stockVars, addrVars, imgVars, revVars, priceVars,
      permVars, rowVars, listVars, tokenVars, raceVars, orderRaceVars,
      statusVars, emailVars, pendingRunVars, alertVars>>

\* the transaction lifecycle under the clock and the beat schedule
PayNext ==
    \/ \E t \in TxnIds, o \in {"pending", "processing", "failed"} :
          InitiatePayment(t, o) /\ UNCHANGED <<raceVars, notPay>>
    \/ auto_timeout_stuck_transactions /\ UNCHANGED <<raceVars, notPay>>
    \/ check_pending_transactions /\ UNCHANGED <<raceVars, notPay>>
    \/ Tick /\ UNCHANGED <<raceVars, notPay>>

SpecPay == Init /\ [][PayNext]_vars

\* the callback task, its retries and the transactions it settles
CbNext ==
    \/ ReceiveCallback /\ UNCHANGED <<payVars, notCallback>>
    \/ \E r \in RetryLevels, o \in CallbackOutcomes, t \in TxnIds,
          res \in {"completed", "failed", "cancelled"} :
          RunCallbackTask(r, o, t, res) /\ UNCHANGED notCallback
    \/ \E t \in TxnIds, o \in {"pending", "processing", "failed"} :
          InitiatePayment(t, o) /\ UNCHANGED <<cbVars, notCallback>>

SpecCallback == Init /\ [][CbNext]_vars

\* order requests, payments, the unpaid-order sweep and the stock writers
StockNext ==
    \/ \E value \in ItemLists : PlaceOrder(value) /\ UNCHANGED <<orderRaceVars, notStock>>
    \/ \E o \in OrderIds, outcome \in {"paid", "failed"} :
          RecordPayment(o, outcome) /\ UNCHANGED <<orderRaceVars, notStock>>
    \/ auto_cancel_unpaid_orders /\ UNCHANGED <<orderRaceVars, notStock>>
    \/ \E p \in Products, q \in -1..MaxStock :
          update_stock(p, q) /\ UNCHANGED <<orderRaceVars, notStock>>
    \/ \E total \in WarehouseTotals :
          sync_product_stock_from_warehouses(total) /\ UNCHANGED <<orderRaceVars, notStock>>
    \/ DayPasses /\ UNCHANGED <<orderRaceVars, notStock>>

SpecStock == Init /\ [][StockNext]_vars

\* the address endpoints, the address admin and guest orders
AddrNext ==
    \/ \E type \in AddressTypes, d \in BOOLEAN :
          perform_create("registered", type, d) /\ UNCHANGED notAddr
    \/ \E id \in AddressIds, type \in AddressTypes \cup {Absent},
          d \in {"true", "false", Absent} :
          perform_update("registered", id, type, d) /\ UNCHANGED notAddr
    \/ \E id \in AddressIds : set_default("registered", id) /\ UNCHANGED notAddr
    \/ \E id \in AddressIds \cup {0}, c \in Customers, type \in AddressTypes,
          d \in BOOLEAN : save_model(id, c, type, d) /\ UNCHANGED notAddr
    \/ GuestOrderAddress /\ UNCHANGED notAddr

SpecAddr == Init /\ [][AddrNext]_vars

\* ProductImage.save calls of two workers, interleaved
ImgNext ==
    \/ \E w \in Workers, id \in ImageIds \cup {0}, p \in Products,
          is_primary \in BOOLEAN :
          ProductImage_save(w, id, p, is_primary) /\ UNCHANGED notImg
    \/ \E w \in Workers : Model_save(w) /\ UNCHANGED notImg

SpecImg == Init /\ [][ImgNext]_vars

\* review creations through the API, interleaved, and on the model
RevNext ==
    \/ \E w \in Workers, p \in Products, c \in ReviewCustomers, r \in Ratings :
          ReviewSerializer_validate(w, p, c, r) /\ UNCHANGED notReview
    \/ \E w \in Workers : ReviewViewSet_perform_create(w) /\ UNCHANGED notReview
    \/ \E p \in Products, c \in ReviewCustomers, r \in Ratings :
          Review_objects_create(p, c, r) /\ UNCHANGED notReview

SpecReview == Init /\ [][RevNext]_vars

\* product saves, the clock and the sale-expiry task
PriceNext ==
    \/ \E fields \in ProductFields : SaveProduct(fields) /\ UNCHANGED notPrice
    \/ ClockTick /\ UNCHANGED notPrice
    \/ auto_expire_flash_sales /\ UNCHANGED notPrice

SpecPrice == Init /\ [][PriceNext]_vars

\* requests to the writing endpoints of ProductViewSet
PermNext ==
    \E u \in Users, endpoint \in Endpoints :
       \E arg \in RequestArgs(endpoint) :
          Request(u, endpoint, arg) /\ UNCHANGED notPerm

SpecPerm == Init /\ [][PermNext]_vars

\* requests on one product row, the admin, the clock and the products tasks
RowNext ==
    \/ \E w \in Workers : get_object(w) /\ UNCHANGED notRow
    \/ \E w \in Workers : increment_view_count(w) /\ UNCHANGED notRow
    \/ \E w \in Workers, d \in 0..MaxClock :
          schedule_publish(w, d) /\ UNCHANGED notRow
    \/ \E a \in BOOLEAN, d \in Times :
          ProductAdmin_save_model(a, d) /\ UNCHANGED notRow
    \/ \E out_of_stock \in BOOLEAN :
          products_beat_tasks(out_of_stock) /\ UNCHANGED notRow
    \/ RowTick /\ UNCHANGED notRow

SpecRow == Init /\ [][RowNext]_vars

\* time passes and the beat runs the products tasks at every time
SpecRowFair ==
    /\ SpecRow
    /\ WF_vars(RowTick /\ UNCHANGED notRow)
    /\ WF_vars(\E out_of_stock \in BOOLEAN :
                  products_beat_tasks(out_of_stock) /\ UNCHANGED notRow)

\* the stock fields of a product row
ListNext ==
    \E fields \in ListingFields : SaveListing(fields) /\ UNCHANGED notList

SpecList == Init /\ [][ListNext]_vars

\* tracking links issued and tracking requests under the clock
TokenNext ==
    \/ \E n \in OrderNumbers : IssueToken(n) /\ UNCHANGED notToken
    \/ \E token \in PresentableTokens : ValidateToken(token) /\ UNCHANGED notToken
    \/ TokenTick /\ UNCHANGED notToken

SpecToken == Init /\ [][TokenNext]_vars

\* the two sweeps run row by row, interleaved with each other and with the
\* callback
RaceNext ==
    \/ \E t \in TxnIds, o \in {"pending", "processing", "failed"} :
          InitiatePayment(t, o) /\ UNCHANGED <<raceVars, notPay>>
    \/ auto_timeout_fetch /\ UNCHANGED notPay
    \/ \E t \in TxnIds : auto_timeout_save(t) /\ UNCHANGED notPay
    \/ check_pending_fetch /\ UNCHANGED notPay
    \/ \E t \in TxnIds, result \in QueryOutcomes :
          check_pending_query(t, result) /\ UNCHANGED notPay
    \/ \E t \in TxnIds, result \in {"completed", "failed", "cancelled"} :
          process_stk_callback(t, result) /\ UNCHANGED notPay
    \/ RaceTick /\ UNCHANGED notPay

SpecPayRace == Init /\ [][RaceNext]_vars

\* order requests, payments and the unpaid-order sweep, with no manual stock
\* edit and no warehouse sync
OrdersNext ==
    \/ \E value \in ItemLists :
          PlaceOrder(value) /\ UNCHANGED <<orderRaceVars, notStock>>
    \/ \E o \in OrderIds, outcome \in {"paid", "failed"} :
          RecordPayment(o, outcome) /\ UNCHANGED <<orderRaceVars, notStock>>
    \/ auto_cancel_unpaid_orders /\ UNCHANGED <<orderRaceVars, notStock>>
    \/ DayPasses /\ UNCHANGED <<orderRaceVars, notStock>>

SpecOrders == Init /\ [][OrdersNext]_vars

\* the order sweeps run row by row, interleaved with payment processing
OrderRaceNext ==
    \/ \E value \in ItemLists :
          PlaceOrder(value) /\ UNCHANGED <<orderRaceVars, notStock>>
    \/ DayPasses /\ UNCHANGED <<orderRaceVars, notStock>>
    \/ auto_cancel_fetch /\ UNCHANGED notStock
    \/ \E o \in OrderIds : auto_cancel_save(o) /\ UNCHANGED notStock
    \/ auto_confirm_fetch /\ UNCHANGED notStock
    \/ \E o \in OrderIds : auto_confirm_save(o) /\ UNCHANGED notStock
    \/ \E o \in OrderIds : payment_load(o) /\ UNCHANGED notStock
    \/ \E o \in OrderIds : payment_save(o) /\ UNCHANGED notStock

SpecOrderRace == Init /\ [][OrderRaceNext]_vars

\* the saves and updates of one order, the signal and the task workers
StatusNext ==
    \/ \E c \in Customers, total \in OrderTotals :
          OrderCreate(c, total) /\ UNCHANGED notStatus
    \/ \E new_status \in OrderStatuses :
          Order_save(new_status) /\ UNCHANGED notStatus
    \/ order_post_save /\ UNCHANGED notStatus
    \/ mark_as_shipped /\ UNCHANGED notStatus
    \/ \E t \in {"delivered", "out_for_delivery"} :
          sync_tracking_updates(t) /\ UNCHANGED notStatus
    \/ \E new_status \in {"processing", "cancelled"} :
          queryset_update(new_status) /\ UNCHANGED notStatus
    \/ mark_as_delivered /\ UNCHANGED notStatus
    \/ update_order_status_task /\ UNCHANGED notStatus
    \/ award_order_loyalty_points /\ UNCHANGED notStatus

SpecStatus == Init /\ [][StatusNext]_vars

\* a save that has written the row goes on to its post_save signal, and the
\* workers run the tasks queued
SpecStatusFair ==
    /\ SpecStatus
    /\ WF_vars(order_post_save /\ UNCHANGED notStatus)
    /\ WF_vars(update_order_status_task /\ UNCHANGED notStatus)
    /\ WF_vars(award_order_loyalty_points /\ UNCHANGED notStatus)

\* the email tasks: enqueued once each, executed by the workers
EmailNext ==
    \/ \E t \in EmailTasks, exists \in BOOLEAN :
          EnqueueEmail(t, exists) /\ UNCHANGED notEmail
    \/ \E t \in EmailTasks : DeleteRecord(t) /\ UNCHANGED notEmail
    \/ \E t \in EmailTasks, i \in 1..2,
          outcome \in {"missing", "success", "false", "no_customer", "raise"} :
          RunEmailTask(t, i, outcome) /\ UNCHANGED notEmail

SpecEmail == Init /\ [][EmailNext]_vars

\* transactions are stored, time passes, and check_pending_transactions runs
PendingRunNext ==
    \/ \E t \in TxnIds, s \in {"pending", "processing", "completed", "failed"},
          id \in CheckoutRequestIds :
          StoreTransaction(t, s, id) /\ UNCHANGED notPendingRun
    \/ check_pending_start /\ UNCHANGED notPendingRun
    \/ \E t \in TxnIds, raises \in BOOLEAN, result \in QueryOutcomes :
          check_pending_iteration(t, raises, result) /\ UNCHANGED notPendingRun
    \/ check_pending_return /\ UNCHANGED notPendingRun
    \/ PendingRunTick /\ UNCHANGED notPendingRun

SpecPendingRun == Init /\ [][PendingRunNext]_vars

\* the row is written and monitor_stock_levels runs
AlertNext ==
    \/ \E quantity \in Quantities, reorder_point \in ReorderLevels,
          reorder_quantity \in ReorderLevels :
          SaveWarehouseStock(quantity, reorder_point, reorder_quantity)
             /\ UNCHANGED notAlert
    \/ monitor_stock_levels /\ UNCHANGED notAlert

SpecAlert == Init /\ [][AlertNext]_vars

\* the day's transactions are written and the reconciliation runs
ReconNext ==
    \/ \E t \in TxnIds, s \in TransactionStatuses, result_code \in ResultCodes :
          SaveTransaction(t, s, result_code) /\ UNCHANGED notRecon
    \/ reconcile_daily_transactions /\ UNCHANGED notRecon

SpecRecon == Init /\ [][ReconNext]_vars

====
